---- MODULE Spec2Model ----
(***************************************************************************)
(* PolyWatch: the tweet composer (polywatch.py), the posted-events ledger  *)
(* (state_store.py) and the orchestrator run (polywatch.main).             *)
(*                                                                         *)
(* A Python str is a sequence of code points; a code point is a TLA+       *)
(* string of one character, or a name for a code point outside ASCII.      *)
(***************************************************************************)
EXTENDS Integers, Sequences, FiniteSets, TLC

\* ------------------------------------------------------------------------
\* Code points
\* ------------------------------------------------------------------------
LF == "\n"
\* "\U0001F4B0", "\U0001F4CA", "\U0001F517" (polywatch.py:51-53), one code point each
money_bag == "U+1F4B0"
chart_up == "U+1F4CA"
link_emoji == "U+1F517"
\* the ellipsis of short_wallet and the dart of the fallback sentence
ELLIPSIS == "U+2026"
DART == "U+1F3AF"

\* \s of the regular expressions and the characters str.strip() removes
Space == {" ", LF}
\* [.!?]
Term == {".", "!", "?"}
Upper ==
    {"A","B","C","D","E","F","G","H","I","J","K","L","M",
     "N","O","P","Q","R","S","T","U","V","W","X","Y","Z"}
LowerCase ==
    {"a","b","c","d","e","f","g","h","i","j","k","l","m",
     "n","o","p","q","r","s","t","u","v","w","x","y","z"}
Digit == {"0","1","2","3","4","5","6","7","8","9"}
\* \w
WordChar == Upper \cup LowerCase \cup Digit \cup {"_"}

\* re.IGNORECASE compares case-folded characters; the letters folded are those
\* of the patterns' literals ("on", "vs", "on @Polymarket"), the only ones a
\* character is ever compared with
Lower(c) ==
    CASE c = "O" -> "o" [] c = "N" -> "n" [] c = "V" -> "v" [] c = "S" -> "s"
      [] c = "P" -> "p" [] c = "L" -> "l" [] c = "Y" -> "y" [] c = "M" -> "m"
      [] c = "A" -> "a" [] c = "R" -> "r" [] c = "K" -> "k" [] c = "E" -> "e"
      [] c = "T" -> "t" [] OTHER -> c

\* ------------------------------------------------------------------------
\* str and re primitives
\* ------------------------------------------------------------------------
Min(a, b) == IF a <= b THEN a ELSE b
Max(a, b) == IF a >= b THEN a ELSE b

SetMin(S) == CHOOSE x \in S : \A y \in S : x <= y
SetMax(S) == CHOOSE x \in S : \A y \in S : x >= y

\* s[a:b] in 1-based inclusive form; empty when a > b
Slice(s, a, b) == IF a > b THEN <<>> ELSE SubSeq(s, a, b)

\* the first index >= i that holds no whitespace (Len(s)+1 when there is none)
RECURSIVE SkipSpace(_, _)
SkipSpace(s, i) ==
    IF i > Len(s) \/ s[i] \notin Space THEN i ELSE SkipSpace(s, i + 1)

\* the last index <= i that holds no whitespace (0 when there is none)
RECURSIVE SkipSpaceBack(_, _)
SkipSpaceBack(s, i) ==
    IF i < 1 \/ s[i] \notin Space THEN i ELSE SkipSpaceBack(s, i - 1)

\* str.strip(), str.rstrip()
Strip(s) == Slice(s, SkipSpace(s, 1), SkipSpaceBack(s, Len(s)))

RStrip(s) == Slice(s, 1, SkipSpaceBack(s, Len(s)))

\* pat occurs in s at index i
MatchAt(s, pat, i) ==
    /\ i >= 1
    /\ i + Len(pat) - 1 <= Len(s)
    /\ \A k \in 1..Len(pat) : s[i + k - 1] = pat[k]

\* the same under re.IGNORECASE
MatchAtCI(s, pat, i) ==
    /\ i >= 1
    /\ i + Len(pat) - 1 <= Len(s)
    /\ \A k \in 1..Len(pat) : Lower(s[i + k - 1]) = Lower(pat[k])

\* pat in s
Contains(s, pat) == \E i \in 1..(Len(s) - Len(pat) + 1) : MatchAt(s, pat, i)

\* s.startswith(pat)
StartsWith(s, pat) == MatchAt(s, pat, 1)

\* sep.join(parts), joined by halves
RECURSIVE Join(_, _)
Join(parts, sep) ==
    IF parts = <<>> THEN <<>>
    ELSE IF Len(parts) = 1 THEN parts[1]
    ELSE LET h == Len(parts) \div 2
         IN  Join(SubSeq(parts, 1, h), sep) \o sep
             \o Join(SubSeq(parts, h + 1, Len(parts)), sep)

\* the increasing enumeration of the members of S in a..b, by halves
RECURSIVE SortedIn(_, _, _)
SortedIn(S, a, b) ==
    IF a > b THEN <<>>
    ELSE IF a = b THEN (IF a \in S THEN <<a>> ELSE <<>>)
    ELSE LET h == (a + b) \div 2
         IN  SortedIn(S, a, h) \o SortedIn(S, h + 1, b)


\* ------------------------------------------------------------------------
\* utils.py
\* ------------------------------------------------------------------------
DigitChars == <<"0","1","2","3","4","5","6","7","8","9">>

\* str(n) for n >= 0
RECURSIVE Decimal(_)
Decimal(n) ==
    IF n < 10 THEN <<DigitChars[n + 1]>>
    ELSE Decimal(n \div 10) \o <<DigitChars[(n % 10) + 1]>>

\* f"{n:,}" for n >= 0: groups of three digits separated by commas
RECURSIVE Grouped(_)
Grouped(n) ==
    IF n < 1000 THEN Decimal(n)
    ELSE Grouped(n \div 1000) \o <<",">>
         \o <<DigitChars[((n \div 100) % 10) + 1],
              DigitChars[((n \div 10) % 10) + 1],
              DigitChars[(n % 10) + 1]>>

\* format_usd: an amount is a number of cents (two decimals are all the
\* format shows).  No decimals when the amount is whole, else two.
format_usd(amount) ==
    LET neg == amount < 0
        val == IF neg THEN -amount ELSE amount
        s   == IF val % 100 = 0
               THEN <<"$">> \o Grouped(val \div 100)
               ELSE <<"$">> \o Grouped(val \div 100) \o <<".">>
                    \o <<DigitChars[((val \div 10) % 10) + 1],
                         DigitChars[(val % 10) + 1]>>
    IN  IF neg THEN <<"-">> \o s ELSE s

\* abs(pnl)
Abs(x) == IF x < 0 THEN -x ELSE x

\* short_wallet
short_wallet(addr) ==
    IF Len(addr) < 10 THEN addr
    ELSE SubSeq(addr, 1, 6) \o <<ELLIPSIS>> \o SubSeq(addr, Len(addr) - 3, Len(addr))

\* ------------------------------------------------------------------------
\* polywatch.py: constants
\* ------------------------------------------------------------------------
\* "\nBuilt by @ForgeLabs__"
FOOTER ==
    <<LF,"B","u","i","l","t"," ","b","y"," ","@","F","o","r","g","e","L","a","b","s","_","_">>
\* "Copy trade via TG alerts: https://tinyurl.com/3fe62ksz"
CTA ==
    <<"C","o","p","y"," ","t","r","a","d","e"," ","v","i","a"," ","T","G"," ",
      "a","l","e","r","t","s",":"," ","h","t","t","p","s",":","/","/","t","i","n","y",
      "u","r","l",".","c","o","m","/","3","f","e","6","2","k","s","z">>
MAX_TWEET_LEN == 280

\* "@Polymarket"
MENTION == <<"@","P","o","l","y","m","a","r","k","e","t">>
\* "on @Polymarket"
ON_MENTION == <<"o","n"," ">> \o MENTION
\* "https://polymarket.com/profile/"
PROFILE_URL ==
    <<"h","t","t","p","s",":","/","/","p","o","l","y","m","a","r","k","e","t",".",
      "c","o","m","/","p","r","o","f","i","l","e","/">>
\* "Massive move. @Polymarket"
minimal_ai == <<"M","a","s","s","i","v","e"," ","m","o","v","e","."," ">> \o MENTION
\* "Trader on @Polymarket"
tiny_ai == <<"T","r","a","d","e","r"," ">> \o ON_MENTION

\* ------------------------------------------------------------------------
\* polywatch.py: apply_footer_and_trim, the mention placement (lines 55-78)
\* ------------------------------------------------------------------------
\* " ".join(text.strip().splitlines()): every line break becomes one space
collapse_lines(text) ==
    LET t == Strip(text)
    IN  [i \in 1..Len(t) |-> IF t[i] = LF THEN " " ELSE t[i]]

\* re.split(r"(?<=[.!?])\s+", s) if s else []
split_sentences(s) ==
    IF s = <<>> THEN <<>>
    ELSE LET n    == Len(s)
             cuts == SortedIn({i \in 2..n : s[i] \in Space /\ s[i - 1] \in Term}, 2, n)
         IN  [k \in 1..(Len(cuts) + 1) |->
                 Slice(s,
                       IF k = 1 THEN 1 ELSE SkipSpace(s, cuts[k - 1]),
                       IF k <= Len(cuts) THEN cuts[k] - 1 ELSE n)]

\* the index of the last character before the trailing run of [.!?]
RECURSIVE SkipTermBack(_, _)
SkipTermBack(s, i) ==
    IF i < 1 \/ s[i] \notin Term THEN i ELSE SkipTermBack(s, i - 1)

\* re.sub(r"\s+on\s*$", "", base, flags=re.IGNORECASE)
strip_trailing_on(base) ==
    LET e == SkipSpaceBack(base, Len(base))
    IN  IF e >= 3 /\ MatchAtCI(base, <<"o","n">>, e - 1) /\ base[e - 2] \in Space
        THEN Slice(base, 1, SkipSpaceBack(base, e - 2))
        ELSE base

\* lines 61-70: " on @Polymarket" goes before the terminal punctuation of a
\* sentence that has none; re.match(r"^(.*?)([.!?]+)$") splits base and punct
with_mention(sent) ==
    IF Contains(sent, MENTION) THEN sent
    ELSE LET k == SkipTermBack(sent, Len(sent))
         IN  IF k < Len(sent)
             THEN strip_trailing_on(RStrip(Slice(sent, 1, k)))
                  \o <<" ">> \o ON_MENTION \o Slice(sent, k + 1, Len(sent))
             ELSE strip_trailing_on(RStrip(sent)) \o <<" ">> \o ON_MENTION

\* lines 59-73
mention_first_sentence(ai_line) ==
    LET sent == split_sentences(ai_line)
    IN  IF sent # <<>>
        THEN Join([k \in 1..Len(sent) |->
                      IF k = 1 THEN with_mention(sent[1]) ELSE sent[k]], <<" ">>)
        ELSE ON_MENTION

\* a word boundary before the word character at index i
BoundaryBefore(s, i) == i = 1 \/ s[i - 1] \notin WordChar

\* r"\bvs\.?\s+on @Polymarket\b" (IGNORECASE) matched at q: the index of the
\* match's last character, 0 when there is no match
VsEnd(s, q) ==
    IF ~(q >= 1 /\ MatchAtCI(s, <<"v","s">>, q) /\ BoundaryBefore(s, q)) THEN 0
    ELSE LET r == IF q + 2 <= Len(s) /\ s[q + 2] = "." THEN q + 3 ELSE q + 2
             j == SkipSpace(s, r)
             e == j + Len(ON_MENTION) - 1
         IN  IF /\ r <= Len(s)
                /\ s[r] \in Space
                /\ MatchAtCI(s, ON_MENTION, j)
                /\ (e = Len(s) \/ s[e + 1] \notin WordChar)
             THEN e ELSE 0

\* r"\bon\s+[^.!?]*?\bvs\.?\s+on @Polymarket\b" (IGNORECASE) matched at p
OnVsEnd(s, p) ==
    IF ~(/\ MatchAtCI(s, <<"o","n">>, p)
         /\ BoundaryBefore(s, p)
         /\ p + 2 <= Len(s)
         /\ s[p + 2] \in Space) THEN 0
    ELSE LET Q == {q \in (p + 3)..Len(s) :
                      /\ VsEnd(s, q) # 0
                      /\ \A k \in (p + 3)..(q - 1) : s[k] \notin Term}
         IN  IF Q = {} THEN 0 ELSE VsEnd(s, SetMin(Q))

\* re.sub of the first pattern by f"on {market} on @Polymarket", from index `from`
RECURSIVE sub_on_vs(_, _, _)
sub_on_vs(s, from, market) ==
    LET P == {p \in from..Len(s) : OnVsEnd(s, p) # 0}
    IN  IF P = {} THEN Slice(s, from, Len(s))
        ELSE Slice(s, from, SetMin(P) - 1)
             \o <<"o","n"," ">> \o market \o <<" ">> \o ON_MENTION
             \o sub_on_vs(s, OnVsEnd(s, SetMin(P)) + 1, market)

\* re.sub of the second pattern by f"{market} on @Polymarket"
RECURSIVE sub_vs(_, _, _)
sub_vs(s, from, market) ==
    LET P == {p \in from..Len(s) : VsEnd(s, p) # 0}
    IN  IF P = {} THEN Slice(s, from, Len(s))
        ELSE Slice(s, from, SetMin(P) - 1)
             \o market \o <<" ">> \o ON_MENTION
             \o sub_vs(s, VsEnd(s, SetMin(P)) + 1, market)

\* lines 76-78: a dangling "vs" before the tag is replaced by the market name
fix_dangling_vs(ai_line, market) ==
    IF market # <<>>
    THEN sub_vs(sub_on_vs(ai_line, 1, market), 1, market)
    ELSE ai_line

\* lines 55-78: the body line every layout is built from
normalise_body(text, market) ==
    fix_dangling_vs(mention_first_sentence(collapse_lines(text)), market)


\* ------------------------------------------------------------------------
\* polywatch.py: _sanitize_ai_text (lines 250-285)
\* ------------------------------------------------------------------------
\* "\r"
CR == "CR"

\* text.replace("\r", "")
remove_cr(text) == SelectSeq(text, LAMBDA c : c # CR)

\* the first index >= i that holds no " " (Len(s)+1 when there is none)
RECURSIVE SkipBlanks(_, _)
SkipBlanks(s, i) ==
    IF i > Len(s) \/ s[i] # " " THEN i ELSE SkipBlanks(s, i + 1)

\* "\n".join(line.rstrip() for line in text.split("\n"))
rstrip_lines(text) ==
    LET dropped(i) ==
            /\ text[i] = " "
            /\ LET j == SkipBlanks(text, i) IN j > Len(text) \/ text[j] = LF
        kept == SortedIn({i \in 1..Len(text) : ~dropped(i)}, 1, Len(text))
    IN  [k \in 1..Len(kept) |-> text[kept[k]]]

\* the index after the run of \w that starts at i
RECURSIVE SkipWord(_, _)
SkipWord(s, i) ==
    IF i > Len(s) \/ s[i] \notin WordChar THEN i ELSE SkipWord(s, i + 1)

\* re.sub(r"@Polymarket\w+", "@Polymarket", text), from index `from`
RECURSIVE sub_variants(_, _)
sub_variants(s, from) ==
    LET after(p) == p + Len(MENTION)
        P == {p \in from..Len(s) :
                 /\ MatchAt(s, MENTION, p)
                 /\ after(p) <= Len(s)
                 /\ s[after(p)] \in WordChar}
    IN  IF P = {} THEN Slice(s, from, Len(s))
        ELSE Slice(s, from, SetMin(P) - 1) \o MENTION
             \o sub_variants(s, SkipWord(s, after(SetMin(P))))

\* re.sub(r"@Polymarket\s*", "", text), from index `from`
RECURSIVE sub_mentions(_, _)
sub_mentions(s, from) ==
    LET P == {p \in from..Len(s) : MatchAt(s, MENTION, p)}
    IN  IF P = {} THEN Slice(s, from, Len(s))
        ELSE Slice(s, from, SetMin(P) - 1)
             \o sub_mentions(s, SkipSpace(s, SetMin(P) + Len(MENTION)))

\* re.sub(r"\s+\.\s+", ". ", text), from index `from`
RECURSIVE sub_spaced_dot(_, _)
sub_spaced_dot(s, from) ==
    LET dot(p) == SkipSpace(s, p)
        P == {p \in from..Len(s) :
                 /\ s[p] \in Space
                 /\ dot(p) < Len(s)
                 /\ s[dot(p)] = "."
                 /\ s[dot(p) + 1] \in Space}
    IN  IF P = {} THEN Slice(s, from, Len(s))
        ELSE Slice(s, from, SetMin(P) - 1) \o <<".", " ">>
             \o sub_spaced_dot(s, SkipSpace(s, dot(SetMin(P)) + 1))

\* re.sub(r"\s+\.", ".", text), from index `from`
RECURSIVE sub_space_dot(_, _)
sub_space_dot(s, from) ==
    LET dot(p) == SkipSpace(s, p)
        P == {p \in from..Len(s) :
                 /\ s[p] \in Space
                 /\ dot(p) <= Len(s)
                 /\ s[dot(p)] = "."}
    IN  IF P = {} THEN Slice(s, from, Len(s))
        ELSE Slice(s, from, SetMin(P) - 1) \o <<".">>
             \o sub_space_dot(s, dot(SetMin(P)) + 1)

\* re.sub(r"\s+on(\s*[.!?])", r"\1", text, flags=re.IGNORECASE), from `from`
RECURSIVE sub_on_punct(_, _)
sub_on_punct(s, from) ==
    LET on(p)   == SkipSpace(s, p)
        term(p) == SkipSpace(s, on(p) + 2)
        P == {p \in from..Len(s) :
                 /\ s[p] \in Space
                 /\ MatchAtCI(s, <<"o","n">>, on(p))
                 /\ term(p) <= Len(s)
                 /\ s[term(p)] \in Term}
    IN  IF P = {} THEN Slice(s, from, Len(s))
        ELSE Slice(s, from, SetMin(P) - 1)
             \o Slice(s, on(SetMin(P)) + 2, term(SetMin(P)))
             \o sub_on_punct(s, term(SetMin(P)) + 1)

\* re.sub(r"\s+", " ", text).strip()
collapse_spaces(text) ==
    LET kept == SortedIn({i \in 1..Len(text) :
                             text[i] \notin Space \/ i = 1 \/ text[i - 1] \notin Space},
                         1, Len(text))
    IN  Strip([k \in 1..Len(kept) |->
                  IF text[kept[k]] \in Space THEN " " ELSE text[kept[k]]])

\* lines 269-278: " on @Polymarket" put before the terminal punctuation of the
\* first sentence, or at its end when it has none
append_mention(sent) ==
    LET k == SkipTermBack(sent, Len(sent))
    IN  IF k < Len(sent)
        THEN strip_trailing_on(RStrip(Slice(sent, 1, k)))
             \o <<" ">> \o ON_MENTION \o Slice(sent, k + 1, Len(sent))
        ELSE strip_trailing_on(RStrip(sent)) \o <<" ">> \o ON_MENTION

\* r"\bon\s+on\s+@Polymarket\b" (IGNORECASE) matched at p: the index of the
\* match's last character, 0 when there is no match
OnOnEnd(s, p) ==
    LET q == SkipSpace(s, p + 2)
        r == SkipSpace(s, q + 2)
        e == r + Len(MENTION) - 1
    IN  IF /\ MatchAtCI(s, <<"o","n">>, p)
           /\ BoundaryBefore(s, p)
           /\ p + 2 <= Len(s) /\ s[p + 2] \in Space
           /\ MatchAtCI(s, <<"o","n">>, q)
           /\ q + 2 <= Len(s) /\ s[q + 2] \in Space
           /\ MatchAtCI(s, MENTION, r)
           /\ (e = Len(s) \/ s[e + 1] \notin WordChar)
        THEN e ELSE 0

\* re.sub(r"\bon\s+on\s+@Polymarket\b", "on @Polymarket", text, IGNORECASE)
RECURSIVE sub_on_on(_, _)
sub_on_on(s, from) ==
    LET P == {p \in from..Len(s) : OnOnEnd(s, p) # 0}
    IN  IF P = {} THEN Slice(s, from, Len(s))
        ELSE Slice(s, from, SetMin(P) - 1) \o ON_MENTION
             \o sub_on_on(s, OnOnEnd(s, SetMin(P)) + 1)

\* re.sub(r"(?i)(?<!@Polymarket)\s+on\s*$", "", text)
sub_stray_on(s) ==
    LET P == {p \in 1..Len(s) :
                 /\ s[p] \in Space
                 /\ ~MatchAtCI(s, MENTION, p - Len(MENTION))
                 /\ MatchAtCI(s, <<"o","n">>, SkipSpace(s, p))
                 /\ SkipSpace(s, SkipSpace(s, p) + 2) > Len(s)}
    IN  IF P = {} THEN s ELSE Slice(s, 1, SetMin(P) - 1)

\* _sanitize_ai_text
sanitize_ai_text(text) ==
    LET t1 == rstrip_lines(remove_cr(text))
        t2 == sub_mentions(sub_variants(t1, 1), 1)
        t3 == sub_on_punct(sub_space_dot(sub_spaced_dot(t2, 1), 1), 1)
        t4 == collapse_spaces(t3)
        sentences == split_sentences(t4)
        t5 == IF sentences # <<>>
              THEN Join([k \in 1..Len(sentences) |->
                            IF k = 1 THEN append_mention(sentences[1])
                            ELSE sentences[k]], <<" ">>)
              ELSE ON_MENTION
    IN  sub_stray_on(sub_on_on(t5, 1))

\* ------------------------------------------------------------------------
\* polywatch.py: apply_footer_and_trim, the layouts (lines 81-111)
\* ------------------------------------------------------------------------
\* The metadata the nested functions close over is the record
\* md = [wallet, pnl_str, market, outcome].

\* f"{money_bag} {pnl_str} on {outcome}"
money_line(md) ==
    <<money_bag, " ">> \o md.pnl_str \o <<" ","o","n"," ">> \o md.outcome

\* f"{chart_up} Market: {market}"
chart_line(market) ==
    <<chart_up, " ","M","a","r","k","e","t",":"," ">> \o market

\* f"https://polymarket.com/profile/{wallet}"
profile_link(wallet) == PROFILE_URL \o wallet

build_lines(ai, md) ==
    <<Strip(ai), <<>>, money_line(md), chart_line(md.market)>>
    \o (IF md.wallet # <<>>
        THEN << <<>>, <<link_emoji>>, profile_link(md.wallet) >>
        ELSE <<>>)
    \o << <<>>, FOOTER, CTA >>

\* mutant: the compact layout leaves the footer out
build_lines_compact_no_footer(ai, md) ==
    <<Strip(ai), money_line(md), chart_line(md.market)>>
    \o (IF md.wallet # <<>>
        THEN << <<link_emoji>>, profile_link(md.wallet) >>
        ELSE <<>>)
    \o << CTA >>

build_lines_compact(ai, md) ==
    <<Strip(ai), money_line(md), chart_line(md.market)>>
    \o (IF md.wallet # <<>>
        THEN << <<link_emoji>>, profile_link(md.wallet) >>
        ELSE <<>>)
    \o << FOOTER, CTA >>

\* "\n".join(lines)
crafted(lines) == Join(lines, <<LF>>)

\* len(...) <= MAX_TWEET_LEN
Fits(s) == Len(s) <= MAX_TWEET_LEN

\* ------------------------------------------------------------------------
\* polywatch.py: apply_footer_and_trim, the fallbacks (lines 113-247)
\* ------------------------------------------------------------------------
\* mutant: the slice is sentences[1:i+1] instead of sentences[:i]
RECURSIVE best_prefix_off_by_one(_, _, _, _)
best_prefix_off_by_one(sentences, i, md, best) ==
    IF i > Len(sentences) THEN best
    ELSE LET candidate_ai == Strip(Join(SubSeq(sentences, 2, Min(i + 1, Len(sentences))), <<" ">>))
             attempt == crafted(build_lines(candidate_ai, md))
         IN  IF Fits(attempt)
             THEN best_prefix_off_by_one(sentences, i + 1, md, attempt)
             ELSE best

\* lines 121-128: the loop keeps the last attempt that fits and stops at the
\* first that does not; best = <<>> stands for None
RECURSIVE best_prefix(_, _, _, _)
best_prefix(sentences, i, md, best) ==
    IF i > Len(sentences) THEN best
    ELSE LET candidate_ai == Strip(Join(SubSeq(sentences, 1, i), <<" ">>))
             attempt == crafted(build_lines(candidate_ai, md))
         IN  IF Fits(attempt)
             THEN best_prefix(sentences, i + 1, md, attempt)
             ELSE best

\* market.split(): the maximal runs of non-whitespace
split_words(s) ==
    LET n      == Len(s)
        starts == SortedIn({i \in 1..n : s[i] \notin Space /\ (i = 1 \/ s[i - 1] \in Space)}, 1, n)
        ends   == SortedIn({i \in 1..n : s[i] \notin Space /\ (i = n \/ s[i + 1] \in Space)}, 1, n)
    IN  [k \in 1..Len(starts) |-> SubSeq(s, starts[k], ends[k])]

\* the compact layout with the market line rewritten (lines 144-147, 156-159, 202-205)
with_market(ai, md, shorter_market) ==
    crafted([build_lines_compact(ai, md) EXCEPT ![3] = chart_line(shorter_market)])

\* mutant: the loop shortens the label by characters, not by words
shorten_market_by_chars(ai, md, words, floor) ==
    LET crafted_c(n) == with_market(ai, md, Slice(md.market, 1, n))
        fit == {n \in 1..Len(md.market) : Fits(crafted_c(n))}
    IN  IF fit = {} THEN <<>> ELSE crafted_c(SetMax(fit))

\* mutant: the loop returns the shortest label that fits
shorten_market_shortest(ai, md, words, floor) ==
    LET crafted_c(k) == with_market(ai, md, Join(SubSeq(words, 1, k), <<" ">>))
        fit == {k \in (floor + 1)..Len(words) : Fits(crafted_c(k))}
    IN  IF fit = {} THEN <<>> ELSE crafted_c(SetMin(fit))

\* the loops of lines 143-150, 155-162 and 201-208 try words[:k] for k going
\* down from len(words) while k > floor and return the first layout that fits:
\* the layout of the largest such k that fits; <<>> when the loop runs out
shorten_market(ai, md, words, floor) ==
    LET crafted_c(k) == with_market(ai, md, Join(SubSeq(words, 1, k), <<" ">>))
        fit == {k \in (floor + 1)..Len(words) : Fits(crafted_c(k))}
    IN  IF fit = {} THEN <<>> ELSE crafted_c(SetMax(fit))

\* filters of lines 168, 173, 188, 226, 232, 238
drop_chart(lines) == SelectSeq(lines, LAMBDA ln : ~StartsWith(ln, <<chart_up, " ">>))
drop_emoji(lines) == SelectSeq(lines, LAMBDA ln : ln # <<link_emoji>>)
drop_money(lines) == SelectSeq(lines, LAMBDA ln : ~StartsWith(ln, <<money_bag, " ">>))

\* lines 178-181
identity_only(wallet, first_sentence) ==
    IF wallet # <<>> /\ Contains(first_sentence, short_wallet(wallet))
    THEN short_wallet(wallet) \o <<" ">> \o ON_MENTION
    ELSE tiny_ai

\* the lengths of the values mk takes in the loop of lines 213-223 (each step,
\* lines 220-223, cuts mk before its last space, or by one character when it
\* has none): the whole market, then its prefix before each space from the
\* right, then, no space being left, every shorter prefix down to ""
chop_lengths(market) ==
    LET spaces == {i \in 1..Len(market) : market[i] = " "}
        first  == IF spaces = {} THEN Len(market) + 1 ELSE SetMin(spaces)
    IN  {Len(market)} \cup {i - 1 : i \in spaces} \cup 0..(first - 1)

\* lines 213-223: [hit, lines]: the layout returned from inside the loop (the
\* first mk, so the longest, whose layout fits), or the lines the loop leaves
\* behind when it breaks at mk = ""
chop_loop(lines_c, market) ==
    LET lines(n) == [lines_c EXCEPT ![3] = RStrip(chart_line(Slice(market, 1, n)))]
        fit == {n \in chop_lengths(market) : Fits(crafted(lines(n)))}
    IN  IF fit # {} THEN [hit |-> TRUE, lines |-> lines(SetMax(fit))]
        ELSE [hit |-> FALSE, lines |-> lines(0)]

\* mutant: the final slice is forgotten
hard_truncate_forgotten(assembled) == assembled

\* line 247: assembled[:MAX_TWEET_LEN]
hard_truncate(assembled) == Slice(assembled, 1, Min(Len(assembled), MAX_TWEET_LEN))

\* lines 193-247: the fallbacks that give the body up
minimal_fallbacks(md) ==
    LET attempt   == crafted(build_lines_compact(minimal_ai, md))
        by_words  == shorten_market(minimal_ai, md, split_words(md.market), 0)
        chopped   == chop_loop(build_lines_compact(minimal_ai, md), md.market)
        lines_no_chart == drop_chart(chopped.lines)
        lines_no_money == drop_money(lines_no_chart)
        lines_no_emoji == drop_emoji(lines_no_money)
        tail      == SelectSeq(lines_no_emoji, LAMBDA ln : ln # lines_no_emoji[1])
        assembled == crafted(<<tiny_ai>> \o tail)
    IN  IF Fits(attempt) THEN [out |-> attempt, step |-> "minimal"]
        ELSE IF by_words # <<>> THEN [out |-> by_words, step |-> "minimal_market"]
        ELSE IF chopped.hit
             THEN [out |-> crafted(chopped.lines), step |-> "minimal_chop"]
        ELSE IF Fits(crafted(lines_no_chart))
             THEN [out |-> crafted(lines_no_chart), step |-> "minimal_no_chart"]
        ELSE IF Fits(crafted(lines_no_money))
             THEN [out |-> crafted(lines_no_money), step |-> "minimal_no_money"]
        ELSE IF Fits(crafted(lines_no_emoji))
             THEN [out |-> crafted(lines_no_emoji), step |-> "minimal_no_emoji"]
        ELSE [out |-> hard_truncate(assembled),
              step |-> IF Fits(assembled) THEN "tiny" ELSE "truncated"]

\* lines 132-191: the fallbacks that keep the first sentence
first_sentence_fallbacks(first_sentence, md) ==
    LET compact   == crafted(build_lines_compact(first_sentence, md))
        words     == split_words(md.market)
        keep3     == shorten_market(first_sentence, md, words, 3)
        keep0     == shorten_market(first_sentence, md, words, 0)
        lines_keep     == build_lines_compact(first_sentence, md)
        lines_no_chart == drop_chart(lines_keep)
        lines_no_emoji == drop_emoji(lines_no_chart)
        lines_shrink   == <<identity_only(md.wallet, first_sentence)>>
                          \o Tail(lines_no_emoji)
        lines_no_money == drop_money(lines_no_emoji)
    IN  IF first_sentence = <<>> THEN minimal_fallbacks(md)
        ELSE IF Fits(compact) THEN [out |-> compact, step |-> "compact"]
        ELSE IF keep3 # <<>> THEN [out |-> keep3, step |-> "market_words"]
        ELSE IF keep0 # <<>> THEN [out |-> keep0, step |-> "market_words"]
        ELSE IF Fits(crafted(lines_no_chart))
             THEN [out |-> crafted(lines_no_chart), step |-> "no_chart"]
        ELSE IF Fits(crafted(lines_no_emoji))
             THEN [out |-> crafted(lines_no_emoji), step |-> "no_emoji"]
        ELSE IF Fits(crafted(lines_shrink))
             THEN [out |-> crafted(lines_shrink), step |-> "identity"]
        ELSE IF Fits(crafted(lines_no_money))
             THEN [out |-> crafted(lines_no_money), step |-> "no_money"]
        ELSE minimal_fallbacks(md)

\* lines 113-247: [out, step]: the string returned and the return that gave it
trim(ai_line, md) ==
    LET full      == crafted(build_lines(ai_line, md))
        sentences == split_sentences(ai_line)
        best      == best_prefix(sentences, 1, md, <<>>)
        first_sentence == IF sentences # <<>> THEN Strip(sentences[1]) ELSE <<>>
    IN  IF Fits(full) THEN [out |-> full, step |-> "full"]
        ELSE IF best # <<>> THEN [out |-> best, step |-> "sentences"]
        ELSE first_sentence_fallbacks(first_sentence, md)

\* apply_footer_and_trim with the return taken
compose(text, wallet, pnl, market, outcome) ==
    trim(normalise_body(text, market),
         [wallet |-> wallet, pnl_str |-> format_usd(Abs(pnl)),
          market |-> market, outcome |-> outcome])

apply_footer_and_trim(text, wallet, pnl, market, outcome) ==
    compose(text, wallet, pnl, market, outcome).out


\* ------------------------------------------------------------------------
\* ai_client.py and polywatch.py: format_tweet
\* ------------------------------------------------------------------------
\* A string that is None or "" is <<>>: the code only tests such values for
\* truth (x or y, if x).

\* a or b
Or(a, b) == IF a # <<>> THEN a ELSE b

\* AIClient.generate_tweet: None without a key, without requests, on a failed
\* or malformed response and on empty content; else the stripped content
generate_tweet(ai) == IF ai.available THEN Strip(ai.content) ELSE <<>>

\* lines 295-307
display_name(full_wallet, handle, profile) ==
    Or(IF handle # <<>> THEN <<"@">> \o handle ELSE profile, short_wallet(full_wallet))

\* line 317: f"{display_name} just made a big move on {title} on @Polymarket! \U0001F3AF"
fallback_sentence(name, title) ==
    name \o <<" ","j","u","s","t"," ","m","a","d","e"," ","a"," ","b","i","g"," ",
              "m","o","v","e"," ","o","n"," ">>
         \o title \o <<" ">> \o ON_MENTION \o <<"!", " ", DART>>

\* format_tweet with the return taken in apply_footer_and_trim
format_tweet_traced(ai, wallet, row, handle, profile) ==
    LET title   == Or(row.title, Or(row.slug, <<"a"," ","m","a","r","k","e","t">>))
        outcome == Or(row.outcome, Or(row.oppositeOutcome, <<"?">>))
        pnl     == row.realizedPnl
        full_wallet == Or(wallet, row.proxyWallet)
        ai_tweet == generate_tweet(ai)
        base    == IF ai_tweet # <<>> THEN ai_tweet
                   ELSE fallback_sentence(display_name(full_wallet, handle, profile), title)
    IN  compose(base, full_wallet, pnl, title, outcome)

format_tweet(ai, wallet, row, handle, profile) ==
    format_tweet_traced(ai, wallet, row, handle, profile).out

\* ------------------------------------------------------------------------
\* The inputs of the composer
\* ------------------------------------------------------------------------
\* n copies of a character
Rep(c, n) == [i \in 1..n |-> c]

\* lengths of the filler sentences, words, labels and addresses
ShortFill == 75
MidFill == 100
LongFill == 125
MarketWords == 30
LongWord == 150
LongOutcome == 110
MidWallet == 145
LongWallet == 160

\* "0x1234567890abcdef1234567890abcdef12345678"
W42 ==
    <<"0","x","1","2","3","4","5","6","7","8","9","0","a","b","c","d","e","f",
      "1","2","3","4","5","6","7","8","9","0","a","b","c","d","e","f",
      "1","2","3","4","5","6","7","8">>

Wallets ==
    {<<>>, <<"0","x","a","b","c">>, W42,
     <<"0","x">> \o Rep("a", MidWallet), <<"0","x">> \o Rep("a", LongWallet)}

\* generated comments
Comments ==
    { <<>>,
      \* "Big win. @Polymarket668"
      <<"B","i","g"," ","w","i","n","."," ">> \o MENTION \o <<"6","6","8">>,
      \* "Nuked it @Polymarket668! Wow."
      <<"N","u","k","e","d"," ","i","t"," ">> \o MENTION \o <<"6","6","8","!"," ","W","o","w",".">>,
      \* "Huge win on."
      <<"H","u","g","e"," ","w","i","n"," ","o","n",".">>,
      \* "Whale wins big"
      <<"W","h","a","l","e"," ","w","i","n","s"," ","b","i","g">>,
      \* "Won on Lions vs."
      <<"W","o","n"," ","o","n"," ","L","i","o","n","s"," ","v","s",".">>,
      \* "Line one.\nLine two!"
      <<"L","i","n","e"," ","o","n","e",".",LF,"L","i","n","e"," ","t","w","o","!">>,
      \* "@Polymarket is wild. Yes."
      MENTION \o <<" ","i","s"," ","w","i","l","d","."," ","Y","e","s",".">>,
      \* the comment of test_enforce_280_and_no_sentence_cut, without its emoji
      <<"T","h","i","s"," ","t","r","a","d","e","r"," ","j","u","s","t"," ","n","u","k","e","d"," ",
        "t","h","e"," ","m","a","r","k","e","t"," ","l","i","k","e"," ","a"," ","d","e","g","e","n"," ",
        "g","o","d","."," ",
        "A","b","s","o","l","u","t","e"," ","c","h","a","o","s",","," ","r","o","c","k","e","t","s"," ",
        "e","v","e","r","y","w","h","e","r","e","!"," ",
        "N","u","m","b","e","r","s"," ","s","o"," ","s","t","u","p","i","d"," ","t","h","e","y"," ",
        "m","a","k","e"," ","r","e","a","l","i","t","y"," ","b","e","n","d","."," ">>
        \o MENTION \o <<"6","6","8">>,
      \* glyph-led comments: "\U0001F4CA Huge." and "\U0001F4B0 Rich."
      <<chart_up, " ","H","u","g","e",".">>,
      <<money_bag, " ","R","i","c","h",".">>,
      \* one-sentence comments of growing length
      Rep("x", ShortFill) \o <<".">>,
      Rep("x", MidFill) \o <<"."," ","W","o","w",".">>,
      Rep("x", LongFill) \o <<"!">> }

\* "Will BTC > $100k in 2025?"
ShortTitle ==
    <<"W","i","l","l"," ","B","T","C"," ",">"," ","$","1","0","0","k"," ","i","n"," ",
      "2","0","2","5","?">>
\* MarketWords times "word", separated by spaces
WordyTitle == Join([k \in 1..MarketWords |-> <<"w","o","r","d">>], <<" ">>)
\* one word of LongWord characters
OneWordTitle == Rep("m", LongWord)

Yes == <<"Y","e","s">>
Outcomes == {Yes, Rep("y", LongOutcome)}

\* rows as get_recent_pnl_from_trades builds them (amounts in cents), and two
\* rows without title or outcome for the "or" chains of lines 290-291
Row(title, outcome, pnl) ==
    [title |-> title, slug |-> <<>>, outcome |-> outcome, oppositeOutcome |-> <<>>,
     realizedPnl |-> pnl, proxyWallet |-> W42]

Rows ==
    {Row(ShortTitle, o, 2520000) : o \in Outcomes}
    \cup {Row(WordyTitle, o, -697773343) : o \in Outcomes}
    \cup {Row(OneWordTitle, o, 1050) : o \in Outcomes}
    \cup {[Row(<<>>, <<>>, 0) EXCEPT !.slug = <<"b","t","c">>, !.oppositeOutcome = <<"N","o">>],
          Row(<<>>, <<>>, 0)}

NoAI == [available |-> FALSE, content |-> <<>>]
AIs == {[available |-> TRUE, content |-> c] : c \in Comments} \cup {NoAI}

Names == {[handle |-> <<>>, profile |-> <<>>],
          [handle |-> <<"w","h","a","l","e">>, profile |-> <<>>],
          [handle |-> <<>>, profile |-> <<"B","o","b">>]}

\* calls of format_tweet: the names only matter when there is no comment
FormatRequests ==
    {[op |-> "format_tweet", ai |-> a, wallet |-> w, row |-> r,
      handle |-> n.handle, profile |-> n.profile] :
        a \in AIs, w \in Wallets, r \in Rows, n \in Names}

\* direct calls of apply_footer_and_trim: with its defaults, as main makes for
\* TEST_TWEET_TEXT, and with an empty market or outcome
ApplyRequests ==
    {[op |-> "apply", ai |-> [available |-> TRUE, content |-> c], wallet |-> w,
      row |-> r, handle |-> <<>>, profile |-> <<>>] :
        c \in Comments,
        w \in {<<>>, W42},
        r \in {Row(<<>>, <<>>, 0), Row(WordyTitle, <<>>, 99), Row(<<>>, Yes, 2520000)}}

Requests ==
    {q \in FormatRequests :
        generate_tweet(q.ai) = <<>> \/ (q.handle = <<>> /\ q.profile = <<>>)}
    \cup ApplyRequests

\* ------------------------------------------------------------------------
\* utils.py: the clock and its ISO form
\* ------------------------------------------------------------------------
\* Time is counted in hours.  timedelta(hours=24) of within_daily_cap:
HOURS_24 == 24
\* datetime(1970, 1, 1): what parse_iso returns for a string it cannot parse
EPOCH == 0

\* datetime.isoformat(): the ISO form of hour t >= 0 is "T" and its decimals
isoformat(t) == <<"T">> \o Decimal(t)

\* int(digits)
RECURSIVE ParseDecimal(_)
ParseDecimal(ds) ==
    IF ds = <<>> THEN 0
    ELSE 10 * ParseDecimal(SubSeq(ds, 1, Len(ds) - 1))
         + (CHOOSE d \in 0..9 : DigitChars[d + 1] = ds[Len(ds)])

\* parse_iso: the time a well-formed string names, the epoch for any other
parse_iso(dt) ==
    IF /\ Len(dt) >= 2
       /\ dt[1] = "T"
       /\ \A i \in 2..Len(dt) : dt[i] \in Digit
    THEN ParseDecimal(Tail(dt))
    ELSE EPOCH

\* ------------------------------------------------------------------------
\* state_store.py
\* ------------------------------------------------------------------------
\* Python's None where a string may stand instead (tweet_id, endDate)
None == <<"(None)">>

\* A JSON document is built from null, strings, arrays (sequences) and
\* objects (records).
JNull == <<"null">>
JString(s) == <<"string", s>>

\* json.dump of a str | None, and json.load of it
dump_value(v) == IF v = None THEN JNull ELSE JString(v)
load_value(j) == IF j = JNull THEN None ELSE j[2]

\* the document json.dump writes for {"items": items}
json_dump(data) ==
    [items |-> [i \in 1..Len(data.items) |->
                   [id        |-> dump_value(data.items[i].id),
                    tweet_id  |-> dump_value(data.items[i].tweet_id),
                    timestamp |-> dump_value(data.items[i].timestamp)]]]

\* what json.load reads back from a document
json_load(doc) ==
    [items |-> [i \in 1..Len(doc.items) |->
                   [id        |-> load_value(doc.items[i].id),
                    tweet_id  |-> load_value(doc.items[i].tweet_id),
                    timestamp |-> load_value(doc.items[i].timestamp)]]]

\* A file is absent, unparseable, holds a document of the ledger's shape, or
\* holds the JSON array [].
Missing == [state |-> "missing"]
Corrupt == [state |-> "corrupt"]
Written(doc) == [state |-> "json", doc |-> doc]
WrittenArray == [state |-> "array"]

\* mutant: what is left of a damaged file is read as an entry
load_json_unguarded(f, default) ==
    IF f.state = "missing" THEN default
    ELSE IF f.state = "corrupt"
    THEN [items |-> <<[id |-> <<"a">>, tweet_id |-> None, timestamp |-> <<>>]>>]
    ELSE IF f.state = "array" THEN <<>>
    ELSE json_load(f.doc)

\* load_json(path, default)
load_json(f, default) ==
    IF f.state = "missing" THEN default
    ELSE IF f.state = "corrupt" THEN default
    ELSE IF f.state = "array" THEN <<>>
    ELSE json_load(f.doc)

\* save_json(path, data): the file's new content
save_json(data) == Written(json_dump(data))

\* PostedCache.__init__ raises AttributeError: raw.get on a list
PostedCacheRaises(f) == f.state = "array"

\* PostedCache.__init__: the object is [items, _ids]
PostedCache(f) ==
    LET raw == load_json(f, [items |-> <<>>])
    IN  [items |-> raw.items,
         ids   |-> {raw.items[i].id : i \in 1..Len(raw.items)}]

\* mutant: the ledger is not consulted
contains_never(c, uid) == FALSE

\* PostedCache.contains
contains(c, uid) == uid \in c.ids

\* mutant: add keeps only the new item
add_overwriting(c, uid, tweet_id, now) ==
    LET items == <<[id |-> uid, tweet_id |-> tweet_id, timestamp |-> isoformat(now)]>>
    IN  [cache |-> [items |-> items, ids |-> c.ids \cup {uid}],
         file  |-> save_json([items |-> items])]

\* mutant: add does not write the file
add_unsaved(c, uid, tweet_id, now) ==
    LET items == Append(c.items,
                        [id |-> uid, tweet_id |-> tweet_id, timestamp |-> isoformat(now)])
    IN  [cache |-> [items |-> items, ids |-> c.ids \cup {uid}],
         file  |-> save_json([items |-> c.items])]

\* PostedCache.add at time now: [cache, file], the object and the file after it
add(c, uid, tweet_id, now) ==
    LET items == Append(c.items,
                        [id |-> uid, tweet_id |-> tweet_id, timestamp |-> isoformat(now)])
    IN  [cache |-> [items |-> items, ids |-> c.ids \cup {uid}],
         file  |-> save_json([items |-> items])]

\* mutant: an entry stamped exactly at the start is not counted
count_since_strict(c, iso_start) ==
    Cardinality({i \in 1..Len(c.items) :
                    parse_iso(c.items[i].timestamp) > parse_iso(iso_start)})

\* PostedCache.count_since
count_since(c, iso_start) ==
    Cardinality({i \in 1..Len(c.items) :
                    parse_iso(c.items[i].timestamp) >= parse_iso(iso_start)})

\* mutant: the cap is not checked
within_daily_cap_unchecked(c, max_per_day, now) == TRUE

\* polywatch.within_daily_cap at time now
within_daily_cap(c, max_per_day, now) ==
    count_since(c, isoformat(now - HOURS_24)) < max_per_day

\* ------------------------------------------------------------------------
\* polywatch.py: the orchestrator's functions
\* ------------------------------------------------------------------------
\* str(v) inside an f-string
py_str(v) == IF v = None THEN <<"N","o","n","e">> ELSE v

\* unique_id: f"{wallet}:{row.get('conditionId')}:{row.get('endDate')}"
unique_id(wallet, row) ==
    wallet \o <<":">> \o py_str(row.conditionId) \o <<":">> \o py_str(row.endDate)

\* str.lower
str_lower(v) == [i \in 1..Len(v) |-> Lower(v[i])]

\* env_bool: val is os.getenv(name), None when the variable is unset
env_bool(val, default) ==
    IF val = None THEN default
    ELSE str_lower(Strip(val)) \in {<<"1">>, <<"t","r","u","e">>, <<"t">>,
                                    <<"y","e","s">>, <<"y">>}

\* PolymarketClient.get_twitter_handle: the handle the profile page links, or
\* nothing; linked is the set of wallets whose page links one
get_twitter_handle(linked, wallet) ==
    IF wallet \in linked THEN <<"w","h","a","l","e">> ELSE <<>>

\* main, lines 391-419: the claims collected from the fetched positions
collect_claims(positions, posted, require_x_handle, linked) ==
    LET wallet_of(row) == Or(row.wallet, row.proxyWallet)
        keep(i) ==
            LET row == positions[i]
                wallet == wallet_of(row)
            IN  /\ wallet # <<>>
                /\ ~contains(posted, unique_id(wallet, row))
                /\ require_x_handle => get_twitter_handle(linked, wallet) # <<>>
        kept == SortedIn({i \in 1..Len(positions) : keep(i)}, 1, Len(positions))
    IN  [k \in 1..Len(kept) |->
            LET row == positions[kept[k]]
            IN  [id      |-> unique_id(wallet_of(row), row),
                 wallet  |-> wallet_of(row),
                 row     |-> row,
                 pnl     |-> row.realizedPnl,
                 abs_pnl |-> Abs(row.realizedPnl)]]

\* mutant: the claims are left in the order fetched
sort_forgotten(claims) == claims

\* main, line 429: list.sort(key=abs_pnl, reverse=True), which is stable
sort_by_abs_pnl(claims) ==
    LET rank(i) ==
            1 + Cardinality({j \in 1..Len(claims) : claims[j].abs_pnl > claims[i].abs_pnl})
              + Cardinality({j \in 1..(i - 1) : claims[j].abs_pnl = claims[i].abs_pnl})
    IN  [k \in 1..Len(claims) |-> claims[CHOOSE i \in 1..Len(claims) : rank(i) = k]]

\* ------------------------------------------------------------------------
\* State
\* ------------------------------------------------------------------------
VARIABLES
    req,      \* the call made of the composer
    tweet,    \* what it returned: [out, step]
    pc,       \* "start" before the call, "done" after it
    clock,    \* now_utc(), in hours
    file,     \* posted.json
    cache,    \* the live PostedCache object: [items, ids]
    max_per_day,  \* MAX_TWEETS_PER_DAY of the deployment
    sent,     \* the calls of TwitterClient.post_tweet so far: [time, kind, key, outcome]
    run,      \* what the last run of main read and did
    runs      \* the number of runs so far

vars == <<req, tweet, pc, clock, file, cache, max_per_day, sent, run, runs>>

composer_vars == <<req, tweet, pc>>
ledger_vars == <<clock, file, cache>>
main_vars == <<max_per_day, sent, run, runs>>

\* ------------------------------------------------------------------------
\* Bounds of the ledger and of the clock
\* ------------------------------------------------------------------------
\* hours the clock advances in one step, and hours it advances in all
TickHours == 12
MaxElapsed == 36
\* entries a ledger is grown to
MaxItems == 3
\* runs of main, and the largest MAX_TWEETS_PER_DAY
MaxRuns == 2
MaxPerDay == 1

\* main's record before the first run
NoRun ==
    [path |-> "none", dry_run |-> TRUE, test_text |-> <<>>, start |-> <<>>,
     start_count |-> 0, positions |-> <<>>, require_x_handle |-> FALSE,
     linked |-> {}, all_claims |-> <<>>, composed |-> <<>>, handed |-> <<>>]

NoRuns ==
    /\ max_per_day = MaxPerDay
    /\ sent = <<>>
    /\ run = NoRun
    /\ runs = 0

\* ------------------------------------------------------------------------
\* The composer called once on any request
\* ------------------------------------------------------------------------
ComposerInit ==
    /\ req \in Requests
    /\ tweet = [out |-> <<>>, step |-> "none"]
    /\ pc = "start"
    /\ clock = HOURS_24
    /\ file = Missing
    /\ cache = PostedCache(Missing)
    /\ NoRuns

CallFormatTweet ==
    /\ pc = "start"
    /\ req.op = "format_tweet"
    /\ tweet' = format_tweet_traced(req.ai, req.wallet, req.row, req.handle, req.profile)
    /\ pc' = "done"
    /\ UNCHANGED <<req, ledger_vars, main_vars>>

CallApplyFooterAndTrim ==
    /\ pc = "start"
    /\ req.op = "apply"
    /\ tweet' = compose(req.ai.content, req.wallet, req.row.realizedPnl,
                        req.row.title, req.row.outcome)
    /\ pc' = "done"
    /\ UNCHANGED <<req, ledger_vars, main_vars>>

ComposerNext == CallFormatTweet \/ CallApplyFooterAndTrim

ComposerSpec == ComposerInit /\ [][ComposerNext]_vars


\* ------------------------------------------------------------------------
\* The normalizer called on any text, and again on its own output
\* ------------------------------------------------------------------------
\* words a text is made of: canonical and garbled mentions, the pieces of
\* one, "on" in both cases, plain and punctuated words, line ends
Words ==
    { MENTION,
      MENTION \o <<"6","6","8">>,
      <<"@">> \o MENTION,
      <<"P","o","l","y","m","a","r","k","e","t">>,
      <<"o","n">>,
      <<"O","n",".">>,
      <<"W","i","n",".">>,
      <<"b","i","g">>,
      <<"w","o","w","!", CR, LF>>,
      <<".">> }

\* texts of at most MaxWords words
MaxWords == 3

Texts ==
    {Join(ws, <<" ">>) : ws \in UNION {[1..n -> Words] : n \in 0..MaxWords}}

SanitizerInit ==
    /\ req \in {[op |-> "sanitize", text |-> t] : t \in Texts}
    /\ tweet = [out |-> <<>>, step |-> "none"]
    /\ pc = "start"
    /\ clock = HOURS_24
    /\ file = Missing
    /\ cache = PostedCache(Missing)
    /\ NoRuns

\* _sanitize_ai_text(text)
CallSanitize ==
    /\ pc = "start"
    /\ req.op = "sanitize"
    /\ tweet' = [out |-> sanitize_ai_text(req.text), step |-> "sanitized"]
    /\ pc' = "done"
    /\ UNCHANGED <<req, ledger_vars, main_vars>>

\* _sanitize_ai_text of what the first call returned
CallSanitizeAgain ==
    /\ pc = "done"
    /\ req.op = "sanitize"
    /\ req' = [op |-> "sanitize", text |-> tweet.out]
    /\ tweet' = [out |-> sanitize_ai_text(tweet.out), step |-> "sanitized"]
    /\ pc' = "again"
    /\ UNCHANGED <<ledger_vars, main_vars>>

SanitizerNext == CallSanitize \/ CallSanitizeAgain

SanitizerSpec == SanitizerInit /\ [][SanitizerNext]_vars

\* ------------------------------------------------------------------------
\* The ledger used on its own: PostedCache objects opened on one file, one
\* live at a time, and keys added
\* ------------------------------------------------------------------------
Keys == {<<"a">>, <<"b">>, <<"c">>}
TweetIds == {None, <<"1","7">>}

IdleComposer ==
    /\ req = [op |-> "none"]
    /\ tweet = [out |-> <<>>, step |-> "none"]
    /\ pc = "idle"

\* the file the first object is built from is absent or cannot be parsed
CacheInit ==
    /\ IdleComposer
    /\ clock = HOURS_24
    /\ file \in {Missing, Corrupt}
    /\ cache = PostedCache(file)
    /\ NoRuns

\* cache = PostedCache(path)
CacheOpen ==
    /\ cache' = PostedCache(file)
    /\ UNCHANGED <<composer_vars, clock, file, main_vars>>

\* cache.add(uid, tweet_id)
CacheAdd ==
    /\ Len(cache.items) < MaxItems
    /\ \E uid \in Keys, tweet_id \in TweetIds :
          LET r == add(cache, uid, tweet_id, clock)
          IN  /\ cache' = r.cache
              /\ file' = r.file
    /\ UNCHANGED <<composer_vars, clock, main_vars>>

\* time passes
Tick ==
    /\ clock + TickHours <= HOURS_24 + MaxElapsed
    /\ clock' = clock + TickHours
    /\ UNCHANGED <<composer_vars, file, cache, main_vars>>

CacheNext == CacheOpen \/ CacheAdd \/ Tick

CacheSpec == CacheInit /\ [][CacheNext]_vars

\* ------------------------------------------------------------------------
\* Runs of main sharing one ledger file
\* ------------------------------------------------------------------------
WalletA == <<"0","x","a","1">>
WalletB == <<"0","x","b","2">>

\* a row of get_recent_pnl_from_trades (amount in cents)
Event(wallet, conditionId, endDate, pnl) ==
    [wallet |-> wallet, proxyWallet |-> wallet, conditionId |-> conditionId,
     endDate |-> endDate, title |-> <<"B","T","C">>, slug |-> <<>>,
     outcome |-> Yes, oppositeOutcome |-> <<>>, realizedPnl |-> pnl]

E1 == Event(WalletA, <<"c","1">>, <<"d","1">>, 5000000)
E2 == Event(WalletB, <<"c","1">>, None, -7000000)
E3 == Event(WalletA, <<"c","2">>, <<"d","1">>, 7000000)

\* what one fetch returns
Fetches ==
    {<<>>, <<E1>>, <<E2>>, <<E1, E2>>, <<E2, E3>>, <<E3, E2>>, <<E1, E3, E2>>}

\* the environment of a run
DryRunValues == {None, <<"0">>}
GlobalModeValues == {None, <<"0">>}
RequireValues == {None, <<" ","Y","e","s">>}
TestTexts == {<<>>, <<" ","g","m">>}
WalletLists == {<<>>, <<WalletA>>}
LinkedSets == {{}, {WalletA}}

\* TwitterClient.post_tweet: returns the id, returns None when the response
\* carries no data, raises RuntimeError from get_client, or raises what
\* create_tweet raises
PostOutcomes == {"posted", "posted_no_id", "missing_credential", "transport_error"}
Raised == {"missing_credential", "transport_error"}

\* str(resp.data.get("id")) of the n-th call
tweet_id_of(n) == Decimal(n)

\* the record of one call of post_tweet
Handed(kind, key, outcome) ==
    [time |-> clock, kind |-> kind, key |-> key, outcome |-> outcome]

\* main, lines 329-343: what a run knows before its first branch
StartOfRun(dry_run, test_text, posted) ==
    [NoRun EXCEPT !.path = "start", !.dry_run = dry_run, !.test_text = test_text,
                  !.start = posted.items,
                  !.start_count = count_since(posted, isoformat(clock - HOURS_24))]

\* a return of main
Return(posted, f, s, r) ==
    /\ cache' = posted
    /\ file' = f
    /\ sent' = s
    /\ run' = r
    /\ runs' = runs + 1
    /\ UNCHANGED <<composer_vars, clock, max_per_day>>

\* an exception leaves main: the run ends where it was raised
Escape(r) ==
    /\ run' = r
    /\ runs' = runs + 1
    /\ UNCHANGED <<composer_vars, clock, file, cache, max_per_day, sent>>

\* mutant: the test path posts without looking at dry_run
TestTweet_always_posts(r0, posted) ==
    \E outcome \in PostOutcomes :
        LET h == Handed("test", None, outcome)
        IN  Return(posted, file, Append(sent, h),
                   [r0 EXCEPT !.path = "test", !.handed = <<h>>])

\* main, lines 343-355
TestTweet(r0, posted) ==
    IF r0.dry_run
    THEN Return(posted, file, sent, [r0 EXCEPT !.path = "test"])
    ELSE \E outcome \in PostOutcomes :
            LET h == Handed("test", None, outcome)
            IN  Return(posted, file, Append(sent, h),
                       [r0 EXCEPT !.path = "test", !.handed = <<h>>])

\* main, lines 428-456: the top claim composed, posted and recorded
PostTop(r1, posted) ==
    LET top_claim == sort_by_abs_pnl(r1.all_claims)[1]
        r2 == [r1 EXCEPT !.composed = <<top_claim.id>>]
    IN  IF r1.dry_run
        THEN LET a == add(posted, top_claim.id, None, clock)
             IN  Return(a.cache, a.file, sent, [r2 EXCEPT !.path = "added"])
        ELSE \E outcome \in PostOutcomes :
                LET h == Handed("event", top_claim.id, outcome)
                    tweet_id == IF outcome = "posted"
                                THEN tweet_id_of(Len(sent) + 1) ELSE None
                    a == add(posted, top_claim.id, tweet_id, clock)
                IN  IF outcome \in Raised
                    THEN Return(posted, file, Append(sent, h),
                                [r2 EXCEPT !.path = "post_error", !.handed = <<h>>])
                    ELSE Return(a.cache, a.file, Append(sent, h),
                                [r2 EXCEPT !.path = "added", !.handed = <<h>>])

\* main, lines 363-426
GlobalMode(r0, posted) ==
    \E GLOBAL_MODE \in GlobalModeValues :
      \* "or" reads wallets only when GLOBAL_MODE is off
      \E wallets \in IF env_bool(GLOBAL_MODE, TRUE) THEN {<<>>} ELSE WalletLists :
        IF ~(env_bool(GLOBAL_MODE, TRUE) \/ wallets = <<>>)
        THEN Return(posted, file, sent, [r0 EXCEPT !.path = "no_mode"])
        ELSE \/ Return(posted, file, sent, [r0 EXCEPT !.path = "fetch_error"])
             \/ \E positions \in Fetches, REQUIRE_X_HANDLE \in RequireValues :
                   LET require_x_handle == env_bool(REQUIRE_X_HANDLE, FALSE)
                   IN  IF positions = <<>>
                       THEN Return(posted, file, sent, [r0 EXCEPT !.path = "no_positions"])
                       ELSE \E linked \in IF require_x_handle THEN LinkedSets ELSE {{}} :
                               LET all_claims == collect_claims(positions, posted,
                                                                require_x_handle, linked)
                                   r1 == [r0 EXCEPT !.positions = positions,
                                                    !.require_x_handle = require_x_handle,
                                                    !.linked = linked,
                                                    !.all_claims = all_claims]
                               IN  IF all_claims = <<>>
                                   THEN Return(posted, file, sent,
                                               [r1 EXCEPT !.path = "no_claims"])
                                   ELSE PostTop(r1, posted)

\* one run of main at the current time
Main ==
    /\ runs < MaxRuns
    /\ \E DRY_RUN \in DryRunValues, TEST_TWEET_TEXT \in TestTexts :
          LET dry_run   == env_bool(DRY_RUN, TRUE)
              test_text == Strip(TEST_TWEET_TEXT)
              posted    == PostedCache(file)
              r0        == StartOfRun(dry_run, test_text, posted)
          IN  IF PostedCacheRaises(file)
              THEN Escape([NoRun EXCEPT !.path = "raised", !.dry_run = dry_run,
                                         !.test_text = test_text])
              ELSE IF test_text # <<>>
              THEN TestTweet(r0, posted)
              ELSE IF ~within_daily_cap(posted, max_per_day, clock)
              THEN Return(posted, file, sent, [r0 EXCEPT !.path = "cap"])
              ELSE GlobalMode(r0, posted)

Init ==
    /\ IdleComposer
    /\ clock = HOURS_24
    /\ file \in {Missing, WrittenArray}
    /\ cache = PostedCache(Missing)
    /\ max_per_day \in 0..MaxPerDay
    /\ sent = <<>>
    /\ run = NoRun
    /\ runs = 0

Next == Main \/ Tick

Spec == Init /\ [][Next]_vars

\* ------------------------------------------------------------------------
\* Properties of the composer (checked under ComposerSpec)
\* ------------------------------------------------------------------------
\* the text the request hands to apply_footer_and_trim, and its market
BodyOf(q) ==
    IF q.op = "apply" THEN q.ai.content
    ELSE IF generate_tweet(q.ai) # <<>> THEN generate_tweet(q.ai)
    ELSE fallback_sentence(display_name(Or(q.wallet, q.row.proxyWallet), q.handle, q.profile),
                           Or(q.row.title, Or(q.row.slug, <<"a"," ","m","a","r","k","e","t">>)))

MarketOf(q) ==
    IF q.op = "apply" THEN q.row.title
    ELSE Or(q.row.title, Or(q.row.slug, <<"a"," ","m","a","r","k","e","t">>))

\* the sentences of the mention-normalised body
InputSentences == split_sentences(normalise_body(BodyOf(req), MarketOf(req)))

\* the first line of a message, and the sentences on it
FirstLine(s) ==
    LET brk == {i \in 1..Len(s) : s[i] = LF}
    IN  IF brk = {} THEN s ELSE Slice(s, 1, SetMin(brk) - 1)

KeptSentences == split_sentences(FirstLine(tweet.out))

IsPrefix(a, b) == Len(a) <= Len(b) /\ \A k \in 1..Len(a) : a[k] = b[k]

\* the number of occurrences of pat in s
Count(s, pat) == Cardinality({i \in 1..Len(s) : MatchAt(s, pat, i)})

\* "@Polymarket" directly followed by a word character
Garbled(s) ==
    \E i \in 1..Len(s) :
        /\ MatchAt(s, MENTION, i)
        /\ i + Len(MENTION) <= Len(s)
        /\ s[i + Len(MENTION)] \in WordChar

\* the return was the last one and its slice cut the message
Truncated == tweet.step = "truncated"

\* C1: every message returned by apply_footer_and_trim, and so by
\* format_tweet, has at most MAX_TWEET_LEN = 280 characters, whichever
\* return produced it.
C1_LengthAtMost280 == pc = "done" => Len(tweet.out) <= MAX_TWEET_LEN

\* the last return cut a longer message down to exactly 280 characters
C1_Witness == pc = "done" /\ Truncated /\ Len(tweet.out) = MAX_TWEET_LEN

\* C2: the message returned by format_tweet contains "@Polymarket" exactly
\* once unless the final hard truncation cut it.
C2_MentionExactlyOnce ==
    (pc = "done" /\ req.op = "format_tweet" /\ ~Truncated)
        => Count(tweet.out, MENTION) = 1

\* C3: the message returned by format_tweet never contains "@Polymarket"
\* immediately followed by further word characters.
C3_NoGarbledMention ==
    (pc = "done" /\ req.op = "format_tweet") => ~Garbled(tweet.out)

LedBy(glyph) ==
    InputSentences # <<>> /\ StartsWith(Strip(InputSentences[1]), <<glyph, " ">>)

\* the returns that keep text of the input body
KeepsBody ==
    \/ tweet.step \in {"full", "sentences", "compact", "market_words"}
    \/ tweet.step \in {"no_chart", "no_emoji"} /\ ~LedBy(chart_up)
    \/ tweet.step = "no_money" /\ ~LedBy(chart_up) /\ ~LedBy(money_bag)

C5_FooterComplete ==
    (pc = "done" /\ ~Truncated) => Contains(tweet.out, Tail(FOOTER))

\* a message from the deepest fallbacks (body, market line, amount line and
\* glyph all given up) still carries the whole footer
C5_Witness ==
    /\ pc = "done"
    /\ tweet.step \in {"minimal_no_money", "minimal_no_emoji", "tiny"}
    /\ Contains(tweet.out, Tail(FOOTER))

\* the metadata the request hands to apply_footer_and_trim
MdOf(q) ==
    IF q.op = "apply"
    THEN [wallet |-> q.wallet, pnl_str |-> format_usd(Abs(q.row.realizedPnl)),
          market |-> q.row.title, outcome |-> q.row.outcome]
    ELSE [wallet |-> Or(q.wallet, q.row.proxyWallet),
          pnl_str |-> format_usd(Abs(q.row.realizedPnl)),
          market |-> MarketOf(q),
          outcome |-> Or(q.row.outcome, Or(q.row.oppositeOutcome, <<"?">>))]

\* the candidates of the request, in the order claimed: the full layout with
\* the whole body, the full layout with the first i sentences, the compact
\* layout with the first sentence, the compact layout with the first k words
\* of the market title
FullCandidate ==
    crafted(build_lines(normalise_body(BodyOf(req), MarketOf(req)), MdOf(req)))
PrefixCandidate(i) ==
    crafted(build_lines(Strip(Join(SubSeq(InputSentences, 1, i), <<" ">>)), MdOf(req)))
CompactCandidate ==
    crafted(build_lines_compact(Strip(InputSentences[1]), MdOf(req)))
TitleWords == split_words(MarketOf(req))
LabelCandidate(k) ==
    with_market(Strip(InputSentences[1]), MdOf(req), Join(SubSeq(TitleWords, 1, k), <<" ">>))

FittingPrefixes == {i \in 1..Len(InputSentences) : Fits(PrefixCandidate(i))}
FittingLabels == {k \in 1..Len(TitleWords) : Fits(LabelCandidate(k))}

\* the returns after the market-label shortening
LaterSteps ==
    {"no_chart", "no_emoji", "identity", "no_money", "minimal", "minimal_market",
     "minimal_chop", "minimal_no_chart", "minimal_no_money", "minimal_no_emoji",
     "tiny", "truncated"}

\* C18: the message returned is the first candidate that fits 280 characters
\* in the order: full layout with the whole body; full layout with the first
\* i sentences for the largest i that fits; compact layout with the first
\* sentence; compact layout with the longest shortened market label that
\* fits; and only when none of these fits, a line drop, the identity phrase
\* or the minimal body.
C18_FirstFittingCandidate ==
    pc = "done" =>
        IF Fits(FullCandidate) THEN tweet.out = FullCandidate
        ELSE IF FittingPrefixes # {}
        THEN tweet.out = PrefixCandidate(SetMax(FittingPrefixes))
        ELSE IF Fits(CompactCandidate) THEN tweet.out = CompactCandidate
        ELSE IF FittingLabels # {}
        THEN tweet.out = LabelCandidate(SetMax(FittingLabels))
        ELSE tweet.step \in LaterSteps

\* the compact layout did not fit with the whole title, and more than one
\* shorter label would have fitted
C18_Witness ==
    /\ pc = "done"
    /\ tweet.step = "market_words"
    /\ ~Fits(CompactCandidate)
    /\ Cardinality(FittingLabels) > 1
    /\ tweet.out = LabelCandidate(SetMax(FittingLabels))

\* the lines of a message
LineSet(s) ==
    LET brk == {0, Len(s) + 1} \cup {i \in 1..Len(s) : s[i] = LF}
    IN  {Slice(s, a + 1, b - 1) :
            <<a, b>> \in {x \in brk \X brk :
                             x[1] < x[2] /\ ~\E c \in brk : x[1] < c /\ c < x[2]}}

\* the market line's start, the lines of the message that start so, and the
\* label such a line shows
MarketPrefix == <<chart_up, " ","M","a","r","k","e","t",":">>
MarketLines == {l \in LineSet(tweet.out) : StartsWith(l, MarketPrefix)}
LabelOf(l) == Slice(l, Len(MarketPrefix) + 2, Len(l))

\* the market title, and the title with trailing whole words removed
WholeLabels ==
    {MarketOf(req)}
    \cup {Join(SubSeq(TitleWords, 1, k), <<" ">>) : k \in 1..Len(TitleWords)}

\* the lines a message is made of when nothing is cut: the layout's own
\* lines, whole-sentence prefixes of the body, the stock phrases, and the
\* market line with a whole-word label
WholeLines ==
    {<<>>, money_line(MdOf(req)), <<link_emoji>>, profile_link(MdOf(req).wallet),
     Tail(FOOTER), CTA, minimal_ai, tiny_ai,
     identity_only(MdOf(req).wallet, Strip(InputSentences[1])),
     Strip(normalise_body(BodyOf(req), MarketOf(req)))}
    \cup {Strip(Join(SubSeq(InputSentences, 1, i), <<" ">>)) : i \in 1..Len(InputSentences)}
    \cup {chart_line(w) : w \in WholeLabels}

\* C19: in every message that the final hard truncation did not produce, the
\* label after "Market:" is the whole market title or the title with trailing
\* whole words removed, and every line is a whole line: no word is cut.
C19_MarketLabelWholeWords ==
    (pc = "done" /\ ~Truncated)
        => /\ \A l \in MarketLines : LabelOf(l) \in WholeLabels
           /\ LineSet(tweet.out) \subseteq WholeLines

\* the market label was shortened, and to some of the title's words
C19_Witness ==
    /\ pc = "done"
    /\ tweet.step = "market_words"
    /\ \E l \in MarketLines :
          /\ LabelOf(l) # MarketOf(req)
          /\ \E k \in 1..(Len(TitleWords) - 1) :
                LabelOf(l) = Join(SubSeq(TitleWords, 1, k), <<" ">>)

\* the optional lines a message shows
HasMarketLine == MarketLines # {}
HasAmountLine == money_line(MdOf(req)) \in LineSet(tweet.out)
HasLinkGlyph == <<link_emoji>> \in LineSet(tweet.out)
HasProfileLink == profile_link(MdOf(req).wallet) \in LineSet(tweet.out)

\* C20: of a message with a profile link, optional lines are given up in the
\* order market line, amount line, link glyph: the market line is shown only
\* with the amount line, the amount line only with the link glyph, and the
\* profile URL line is always shown.
C20_FixedDropOrder ==
    (pc = "done" /\ ~Truncated /\ MdOf(req).wallet # <<>>)
        => /\ HasProfileLink
           /\ HasMarketLine => HasAmountLine
           /\ HasAmountLine => HasLinkGlyph

\* the identity phrase, the profile URL line (when there is a wallet), the
\* footer and the call-to-action, one per line
IdentityLayout ==
    crafted(<<tiny_ai>>
            \o (IF MdOf(req).wallet # <<>> THEN <<profile_link(MdOf(req).wallet)>> ELSE <<>>)
            \o <<FOOTER, CTA>>)

\* C21: the final hard truncation cuts the message only when the identity
\* phrase, the profile URL line, the footer and the call-to-action together
\* exceed 280 characters; whenever they fit, the message returned is not cut
\* and contains the mention token, the profile URL, the footer and the
\* call-to-action in full.
C21_TruncationOnlyWhenIdentityTooLong ==
    pc = "done" =>
        /\ Truncated => ~Fits(IdentityLayout)
        /\ Fits(IdentityLayout)
              => /\ ~Truncated
                 /\ Contains(tweet.out, MENTION)
                 /\ MdOf(req).wallet # <<>> => HasProfileLink
                 /\ Contains(tweet.out, FOOTER)
                 /\ CTA \in LineSet(tweet.out)

\* the request is a call of format_tweet for which generate_tweet gives nothing
FallbackUsed ==
    pc = "done" /\ req.op = "format_tweet" /\ generate_tweet(req.ai) = <<>>

\* C14 as stated: without a generated comment format_tweet composes the fixed
\* sentence, and the message has at most 280 characters and, unless the final
\* hard truncation cut it, contains "@Polymarket" exactly once.
C14_FallbackKeepsGuarantees ==
    FallbackUsed
       => /\ tweet.out = apply_footer_and_trim(BodyOf(req),
                                               Or(req.wallet, req.row.proxyWallet),
                                               req.row.realizedPnl, MarketOf(req),
                                               Or(req.row.outcome,
                                                  Or(req.row.oppositeOutcome, <<"?">>)))
          /\ Len(tweet.out) <= MAX_TWEET_LEN
          /\ ~Truncated => Count(tweet.out, MENTION) = 1

\* ------------------------------------------------------------------------
\* Properties of the runs (checked under Spec)
\* ------------------------------------------------------------------------
\* the items posted.json holds
FileItems(f) ==
    IF PostedCacheRaises(f) THEN <<>> ELSE load_json(f, [items |-> <<>>]).items
LedgerItems == FileItems(file)

\* the keys the ledger held when the last run started
StartIds == {run.start[i].id : i \in 1..Len(run.start)}

\* the identity key of the i-th position the last run fetched
KeyOf(i) == unique_id(run.positions[i].wallet, run.positions[i])

\* the fetched positions the last run could post: not in the ledger at its
\* start and, under REQUIRE_X_HANDLE, of a trader with a linked handle
Eligible ==
    {i \in 1..Len(run.positions) :
        /\ KeyOf(i) \notin StartIds
        /\ run.require_x_handle => run.positions[i].wallet \in run.linked}

\* post_tweet returned for the message of an event
Accepted(h) == h.kind = "event" /\ h.outcome \notin Raised

\* the calls among S made in the 24 hours up to time t
InWindow(S, t) == {j \in S : t - HOURS_24 <= sent[j].time /\ sent[j].time <= t}

\* C6: an event whose key is in the ledger when a run starts is not composed,
\* not posted and not appended by that run, and the ledger never holds a key
\* twice.
C6_KnownKeySkipped ==
    /\ \A i \in 1..Len(run.composed) : run.composed[i] \notin StartIds
    /\ \A i \in 1..Len(run.handed) :
          run.handed[i].kind = "event" => run.handed[i].key \notin StartIds
    /\ \A i \in (Len(run.start) + 1)..Len(LedgerItems) : LedgerItems[i].id \notin StartIds
    /\ \A i, j \in 1..Len(LedgerItems) : LedgerItems[i].id = LedgerItems[j].id => i = j

\* a run fetched an event already in the ledger and handled another one
C6_Witness ==
    /\ run.path = "added"
    /\ \E i \in 1..Len(run.positions) : KeyOf(i) \in StartIds

C8_FailedPostRecorded ==
    run.path = "post_error"
       => \E i \in 1..Len(LedgerItems) : LedgerItems[i].id = run.composed[1]

\* C9: a run composes, posts and appends at most one event, the same one, and
\* none of the eligible fetched events has a larger absolute profit/loss.
C9_OneTopEvent ==
    /\ Len(run.composed) <= 1
    /\ Len(run.handed) <= 1
    /\ Len(LedgerItems) <= Len(run.start) + 1
    /\ \A i \in 1..Len(run.handed) :
          run.handed[i].kind = "event" => run.composed = <<run.handed[i].key>>
    /\ Len(LedgerItems) > Len(run.start)
          => run.composed = <<LedgerItems[Len(LedgerItems)].id>>
    /\ run.composed # <<>>
          => \E i \in Eligible :
                /\ KeyOf(i) = run.composed[1]
                /\ \A j \in Eligible :
                      Abs(run.positions[j].realizedPnl) <= Abs(run.positions[i].realizedPnl)

\* a run recorded an event that was not the first eligible one fetched
C9_Witness ==
    /\ run.path = "added"
    /\ \E i, j \in Eligible :
          /\ i < j
          /\ Abs(run.positions[i].realizedPnl) < Abs(run.positions[j].realizedPnl)

\* what post_tweet returned to the last run
Returned ==
    IF run.handed[1].outcome = "posted" THEN tweet_id_of(Len(sent)) ELSE None

MissingCredential ==
    \E i \in 1..Len(run.handed) : run.handed[i].outcome = "missing_credential"

\* C17: a run ends normally whatever fails in the fetch, the posting
\* transport or the reading of the ledger; an exception leaves main when,
\* and only when, a required posting credential is missing at a real post.
C17_OnlyMissingCredentialAborts ==
    runs > 0 => (run.path = "raised" <=> MissingCredential)

\* C22: a run in simulate-only mode (DRY_RUN true, the value also used when
\* DRY_RUN is unset) makes no call of post_tweet, on the event path and on
\* the TEST_TWEET_TEXT path alike.
C22_DryRunPostsNothing ==
    [][(runs' = runs + 1 /\ run'.dry_run) => (sent' = sent /\ run'.handed = <<>>)]_vars

\* a simulated run took the TEST_TWEET_TEXT path after a real run had posted
C22_Witness ==
    /\ run.dry_run
    /\ run.path = "test"
    /\ run.test_text # <<>>
    /\ sent # <<>>

\* C23: a run with TEST_TWEET_TEXT set composes that text, posts it once or
\* simulates it, and returns on the test path: it fetches nothing, and the
\* ledger holds after the run what it held before.
C23_TestTextLeavesLedger ==
    (runs > 0 /\ run.test_text # <<>>)
        => /\ run.path = "test"
           /\ run.positions = <<>>
           /\ run.composed = <<>>
           /\ Len(run.handed) = (IF run.dry_run THEN 0 ELSE 1)
           /\ \A i \in 1..Len(run.handed) : run.handed[i].kind = "test"
           /\ LedgerItems = run.start

\* ------------------------------------------------------------------------
\* Properties of the ledger (checked under CacheSpec)
\* ------------------------------------------------------------------------
\* C10: every step keeps the items recorded so far in place, in the object and
\* in the file; a step that changes either is an add, which lengthens the list
\* by one and leaves the file holding exactly the object's list.
C10_AppendOnly ==
    [][ /\ IsPrefix(cache.items, cache'.items)
        /\ IsPrefix(FileItems(file), FileItems(file'))
        /\ (cache' # cache \/ file' # file)
              => /\ Len(cache'.items) = Len(cache.items) + 1
                 /\ FileItems(file') = cache'.items ]_vars

\* two adds at different times, the file holding both
C10_Witness ==
    /\ Len(cache.items) = 2
    /\ FileItems(file) = cache.items
    /\ cache.items[1].timestamp # cache.items[2].timestamp

\* the keys of the items a PostedCache holds
ItemKeys(c) == {c.items[i].id : i \in 1..Len(c.items)}

\* C12: contains answers true exactly for the keys added, in the object and in
\* an object built from the file; an add makes contains true for its key in
\* both and raises count_since(t) by one for every t up to the time of the add.
C12_AddThenContains ==
    /\ [](\A k \in Keys :
            /\ contains(cache, k) <=> k \in ItemKeys(cache)
            /\ contains(PostedCache(file), k) <=> k \in ItemKeys(cache))
    /\ [][ Len(cache'.items) > Len(cache.items)
             => LET new == cache'.items[Len(cache'.items)]
                IN  /\ contains(cache', new.id)
                    /\ contains(PostedCache(file'), new.id)
                    /\ \A t \in 0..clock :
                          /\ count_since(cache', isoformat(t))
                                = count_since(cache, isoformat(t)) + 1
                          /\ count_since(PostedCache(file'), isoformat(t))
                                = count_since(cache, isoformat(t)) + 1 ]_vars

\* an entry added earlier is counted from the time of its add, not from now,
\* and some key was never added
C12_Witness ==
    /\ Len(cache.items) >= 1
    /\ \E k \in Keys : ~contains(cache, k)
    /\ clock > HOURS_24
    /\ count_since(PostedCache(file), isoformat(HOURS_24)) >= 1
    /\ count_since(PostedCache(file), isoformat(clock)) = 0

\* C13: a PostedCache built from a file that cannot be parsed is empty:
\* contains is false for every key and count_since is 0 from any start; so is
\* the object that was built from it.
C13_CorruptFileIsEmpty ==
    file = Corrupt
       => /\ PostedCache(file) = [items |-> <<>>, ids |-> {}]
          /\ cache = PostedCache(file)
          /\ \A k \in Keys : ~contains(PostedCache(file), k)
          /\ \A t \in 0..clock : count_since(PostedCache(file), isoformat(t)) = 0

\* an object was built from an unparseable file and time has passed
C13_Witness ==
    /\ file = Corrupt
    /\ cache.items = <<>>
    /\ clock > HOURS_24

\* ------------------------------------------------------------------------
\* Properties of the normalizer (checked under SanitizerSpec)
\* ------------------------------------------------------------------------
\* s ends with "@Polymarket" once its trailing [.!?] are set aside
EndsWithMention(s) ==
    LET k == SkipTermBack(s, Len(s))
    IN  MatchAt(s, MENTION, k - Len(MENTION) + 1)

\* C15 as stated: what _sanitize_ai_text returns contains "@Polymarket" exactly
\* once, at the end of its first sentence before the terminal punctuation, and
\* does not begin with it.
C15_OneMentionEndsFirstSentence ==
    (req.op = "sanitize" /\ pc # "start")
       => /\ Count(tweet.out, MENTION) = 1
          /\ EndsWithMention(split_sentences(tweet.out)[1])
          /\ ~StartsWith(tweet.out, MENTION)

\* C16 as stated: _sanitize_ai_text applied to its own output returns it
\* unchanged.
C16_Idempotent ==
    (req.op = "sanitize" /\ pc = "again") => tweet.out = req.text

====
